---- MODULE Spec2Model ----
(***************************************************************************)
(* The array hash table of hat-trie, src/src/ahtable.c, at the level of    *)
(* the bytes of its buckets.  A bucket ("slot") is one buffer holding      *)
(* packed records (length prefix, key bytes, value) and a 0x00 terminator. *)
(* Offsets into a buffer are 0-based as in the C code; byte p of buf is    *)
(* buf[p + 1].  Slot i of a table is T.slots[i + 1].                        *)
(***************************************************************************)
EXTENDS Integers, Sequences, FiniteSets, TLC

VARIABLES
    T,        \* the table: [flag, c0, c1, n, m, max_m, slots]
    keys,     \* the caller's keys, in the order it first uses them
    shadow,   \* history: the map the caller has built since create/clear,
              \* shadow[j] the value last stored for keys[j], or Absent
    aborted,  \* the process was ended by a failed assert()
    le,       \* build: the target stores uint16_t little-endian
    ndebug,   \* build: compiled with NDEBUG (assert() compiled out)
    hsel,     \* which hash function the table is linked with
    S,        \* the table ahtable_dup returned, as its pointers show memory
    heap,     \* the addresses of the bucket buffers of T and S, kept by the
              \* callers that clone; the other callers hold buffers by value
    snap      \* history: shadow at the time of the clone

vars == <<T, keys, shadow, aborted, le, ndebug, hsel, S, heap, snap>>

(***************************************************************************)
(* Program constants.                                                      *)
(***************************************************************************)
ahtable_max_load_factor == 5
ahtable_initial_size == 8
LONG_KEYLEN_MASK == 32767
\* sizeof(value_t); value_t comes from the header, an unsigned 64-bit integer
SizeofValue == 8

(***************************************************************************)
(* Bounds of the model.                                                    *)
(***************************************************************************)
\* create_n(n) is called with n in 1..MaxCreateN
MaxCreateN == 1
\* get is not called once the counter m has reached MaxM
MaxM == 7
\* the same for the long workload of SpecSeq
MaxSeqM == 82

\* insertions the caller of the boundary-length workload makes
MaxEncM == 8
\* get is not called by a caller that clones once m has reached MaxDupM
MaxDupM == 6

(***************************************************************************)
(* Bytes, buffers, pointers.                                               *)
(***************************************************************************)
\* a byte of a malloc'ed buffer that was never written
Uninit == 0 - 1
\* a NULL slot pointer
NullSlot == << >>
\* a NULL value_t*
NullVal == [slot |-> 0 - 1, off |-> 0 - 1]
\* no entry in the caller's map; what a lookup that returned NULL holds
Absent == 0 - 2

Rep(b, n) == [i \in 1..n |-> b]

Min(X) == CHOOSE x \in X : \A y \in X : x <= y

\* malloc(size): a fresh buffer of unwritten bytes
Malloc(size) == Rep(Uninit, size)

\* realloc(buf, size): the old bytes up to the smaller size, the rest unwritten
Realloc(buf, size) ==
    IF size <= Len(buf) THEN SubSeq(buf, 1, size)
    ELSE buf \o Rep(Uninit, size - Len(buf))

\* bytes stored at offset pos of buf (the part of a store that falls past the
\* end of the buffer is dropped here; the cursor the writer returns shows it)
WriteAt(buf, pos, bytes) ==
    IF pos >= Len(buf) THEN buf
    ELSE SubSeq(buf, 1, pos)
         \o SubSeq(bytes, 1, IF pos + Len(bytes) > Len(buf)
                             THEN Len(buf) - pos ELSE Len(bytes))
         \o SubSeq(buf, pos + Len(bytes) + 1, Len(buf))

\* (uint16_t) x
U16(x) == x % 65536

\* x | 0x8000 on a uint16_t
Or8000(x) == IF x >= 32768 THEN x ELSE x + 32768

\* the two bytes of a uint16_t in memory
StoreU16(w) == IF le THEN <<w % 256, w \div 256>> ELSE <<w \div 256, w % 256>>

\* *((uint16_t*) s) at offset p
LoadU16(buf, p) ==
    IF le THEN buf[p + 1] + 256 * buf[p + 2] ELSE 256 * buf[p + 1] + buf[p + 2]

\* the bytes of a value_t in memory (values of the model stay below 2^24)
ValBytes(v) ==
    [i \in 1..SizeofValue |->
        LET d == IF le THEN i - 1 ELSE SizeofValue - i
        IN  IF d > 2 THEN 0 ELSE (v \div (256 ^ d)) % 256]

\* *(value_t*) at offset p; Uninit when any of its bytes was never written
LoadVal(buf, p) ==
    LET B(d) == buf[p + (IF le THEN d + 1 ELSE SizeofValue - d)]
    IN  IF \E i \in 1..SizeofValue : buf[p + i] = Uninit THEN Uninit
        ELSE B(0) + 256 * B(1) + 65536 * B(2)

(***************************************************************************)
(* The hash function is an external collaborator (superfasthash.h): any   *)
(* function of the key bytes.  Two are modelled: one that spreads the keys *)
(* and the constant one.                                                   *)
(***************************************************************************)
HashKinds == {"mix", "const"}

hash(key) ==
    IF hsel = "const" \/ Len(key) = 0 THEN 0
    ELSE 2 * key[1] + key[Len(key)] + Len(key)

(***************************************************************************)
(* ins_key: write one record at offset pos of buf.                         *)
(***************************************************************************)
\* the length prefix ins_key writes
KeyLenPrefix(len) ==
    IF len < 128 THEN <<len % 256>> ELSE StoreU16(Or8000(U16(len)))

\* returns the buffer, the offset of the value (val) and the advanced cursor
ins_key(buf, pos, key) ==
    LET pre == KeyLenPrefix(Len(key))
        b1  == WriteAt(buf, pos, pre)
        b2  == WriteAt(b1, pos + Len(pre), key)
        vo  == pos + Len(pre) + Len(key)
        b3  == WriteAt(b2, vo, ValBytes(0))
    IN  [buf |-> b3, val |-> vo, next |-> vo + SizeofValue]

(***************************************************************************)
(* Reading a record's length prefix: the same code in get_key, iter_next,  *)
(* iter_key and iter_val.                                                  *)
(***************************************************************************)
\* 0x80 & *s
LongPrefix(buf, p) == buf[p + 1] >= 128

\* the number of bytes the reader steps over for the prefix
PrefixStep(buf, p) == IF LongPrefix(buf, p) THEN 2 ELSE 1

\* the key length k the reader decodes at offset p
KeyLenAt(buf, p) ==
    IF LongPrefix(buf, p)
    THEN LoadU16(buf, p) % (LONG_KEYLEN_MASK + 1)
    ELSE buf[p + 1]

(***************************************************************************)
(* Construction and clear.                                                 *)
(***************************************************************************)
MaxLoad(n) == ahtable_max_load_factor * n

ahtable_create_n(n) ==
    [flag |-> 0, c0 |-> 0, c1 |-> 0,
     n |-> n, m |-> 0, max_m |-> MaxLoad(n),
     slots |-> [i \in 1..n |-> NullSlot]]

ahtable_create == ahtable_create_n(ahtable_initial_size)

ahtable_size(t) == t.m

ahtable_clear(t) ==
    [t EXCEPT !.n = ahtable_initial_size,
              !.slots = [i \in 1..ahtable_initial_size |-> NullSlot]]

(***************************************************************************)
(* The iterator: [i, s], a slot index and an offset into that slot.        *)
(***************************************************************************)
\* slot j holds a buffer whose first byte is not the terminator
NonEmptySlot(t, j) == t.slots[j + 1] # NullSlot /\ t.slots[j + 1][1] # 0

\* the first slot index >= j that is not skipped, or n
SkipEmpty(t, j) ==
    LET X == {x \in j..(t.n - 1) : NonEmptySlot(t, x)}
    IN  IF X = {} THEN t.n ELSE Min(X)

ahtable_iter_begin(t) == [i |-> SkipEmpty(t, 0), s |-> 0]

ahtable_iter_finished(t, it) == it.i >= t.n

ahtable_iter_next(t, it) ==
    IF ahtable_iter_finished(t, it) THEN it
    ELSE LET buf == t.slots[it.i + 1]
             k   == KeyLenAt(buf, it.s)
             s2  == it.s + PrefixStep(buf, it.s) + k + SizeofValue
         IN  IF buf[s2 + 1] = 0
             THEN LET j == SkipEmpty(t, it.i + 1)
                  IN  [i |-> j, s |-> IF j < t.n THEN 0 ELSE s2]
             ELSE [i |-> it.i, s |-> s2]

\* the key bytes at the cursor (with their length), or NULL
ahtable_iter_key(t, it) ==
    IF ahtable_iter_finished(t, it) THEN NullSlot
    ELSE LET buf == t.slots[it.i + 1]
             k   == KeyLenAt(buf, it.s)
             s1  == it.s + PrefixStep(buf, it.s)
         IN  SubSeq(buf, s1 + 1, s1 + k)

\* the value_t* at the cursor, or NULL
ahtable_iter_val(t, it) ==
    IF ahtable_iter_finished(t, it) THEN NullVal
    ELSE LET buf == t.slots[it.i + 1]
             k   == KeyLenAt(buf, it.s)
         IN  [slot |-> it.i, off |-> it.s + PrefixStep(buf, it.s) + k]

\* *v for a non-NULL value_t* v into table t
Deref(t, v) == LoadVal(t.slots[v.slot + 1], v.off)

\* *v = x
Store(t, v, x) ==
    [t EXCEPT !.slots[v.slot + 1] = WriteAt(@, v.off, ValBytes(x))]

(***************************************************************************)
(* A loop "i = begin(T); while (!finished(i)) { body(i); next(i); }" is    *)
(* run as: the sequence of cursors it visits, then the body folded over    *)
(* that sequence.  Both are evaluated by halving, which keeps the depth of *)
(* evaluation logarithmic in the number of records; a fold looks at its    *)
(* accumulator first, so that the first half is evaluated before the       *)
(* second half starts.                                                     *)
(***************************************************************************)
RECURSIVE SlotBytes(_, _)
\* the bytes allocated to slots 0..j-1
SlotBytes(t, j) == IF j = 0 THEN 0 ELSE Len(t.slots[j]) + SlotBytes(t, j - 1)

RECURSIVE CursorRun(_, _, _)
\* the cursors a, followed by the k cursors after the last one of a
CursorsAfter(t, a, k) ==
    a \o CursorRun(t, ahtable_iter_next(t, a[Len(a)]), k)

\* the k cursors it, next(it), next(next(it)), ...
CursorRun(t, it, k) ==
    IF k <= 0 THEN << >>
    ELSE IF k = 1 THEN <<it>>
    ELSE CursorsAfter(t, CursorRun(t, it, k \div 2), k - k \div 2)

\* the cursors at which the loop body runs (a record takes more than
\* SizeofValue bytes, so the loop ends within SlotBytes / SizeofValue steps)
Cursors(t) ==
    LET unfinished(it) == ~ahtable_iter_finished(t, it)
    IN  SelectSeq(CursorRun(t, ahtable_iter_begin(t),
                            SlotBytes(t, t.n) \div SizeofValue),
                  unfinished)

(***************************************************************************)
(* ahtable_expand.                                                         *)
(***************************************************************************)
\* the bytes pass 1 adds to slot_sizes for a key of length len
RecordSize(len) == len + SizeofValue + (IF len >= 128 THEN 2 ELSE 1)

\* slot_sizes[hash(key, len) % new_n] += the bytes of the record of key
AddSize(slot_sizes, new_n, key) ==
    [slot_sizes EXCEPT ![(hash(key) % new_n) + 1] = @ + RecordSize(Len(key))]

RECURSIVE ExpandSizes(_, _, _, _, _)
\* pass 1: the body of the loop of lines 118-125 at cursors cs[lo..hi]
ExpandSizes(t, cs, lo, hi, slot_sizes) ==
    IF lo > hi \/ Len(slot_sizes) = 0 THEN slot_sizes
    ELSE IF lo = hi
    THEN AddSize(slot_sizes, 2 * t.n, ahtable_iter_key(t, cs[lo]))
    ELSE ExpandSizes(t, cs, (lo + hi) \div 2 + 1, hi,
             ExpandSizes(t, cs, lo, (lo + hi) \div 2, slot_sizes))

\* the new slots: sizes[j] + 1 bytes with the last one 0x00, or NULL
ExpandAlloc(slot_sizes) ==
    [j \in 1..Len(slot_sizes) |->
        IF slot_sizes[j] > 0
        THEN Malloc(slot_sizes[j]) \o <<0>>
        ELSE NullSlot]

\* lines 156-160 for one record: r is what ins_key returned for slot h, x the
\* value *v of the record replayed; st = [slots, slots_next, m]
Placed(st, h, r, x) ==
    [slots      |-> [st.slots EXCEPT ![h + 1] = WriteAt(r.buf, r.val, ValBytes(x))],
     slots_next |-> [st.slots_next EXCEPT ![h + 1] = r.next],
     m          |-> st.m + 1]

\* lines 153-160 for the record key, whose value is x
PlaceKey(st, h, key, x) ==
    Placed(st, h, ins_key(st.slots[h + 1], st.slots_next[h + 1], key), x)

RECURSIVE ExpandPlace(_, _, _, _, _)
\* pass 2: the body of the loop of lines 150-162 at cursors cs[lo..hi]
ExpandPlace(t, cs, lo, hi, st) ==
    IF lo > hi \/ Len(st.slots) = 0 THEN st
    ELSE IF lo = hi
    THEN PlaceKey(st, hash(ahtable_iter_key(t, cs[lo])) % (2 * t.n),
                  ahtable_iter_key(t, cs[lo]),
                  Deref(t, ahtable_iter_val(t, cs[lo])))
    ELSE ExpandPlace(t, cs, (lo + hi) \div 2 + 1, hi,
             ExpandPlace(t, cs, lo, (lo + hi) \div 2, st))

\* lines 165-172: the assert, then the new slots, n and max_m
ExpandFinish(t, st) ==
    IF ~ndebug /\ st.m # t.m
    THEN [T |-> t, aborted |-> TRUE]
    ELSE [T |-> [t EXCEPT !.slots = st.slots, !.n = 2 * t.n,
                          !.max_m = MaxLoad(2 * t.n)],
          aborted |-> FALSE]

\* lines 112-163: both passes over the cursors cs of the table
ExpandPasses(t, cs) ==
    ExpandPlace(t, cs, 1, Len(cs),
        [slots      |-> ExpandAlloc(
                            ExpandSizes(t, cs, 1, Len(cs), Rep(0, 2 * t.n))),
         slots_next |-> Rep(0, 2 * t.n),
         m          |-> 0])

\* the table after the expansion, and whether assert(m == T->m) ended the process
ahtable_expand(t) == ExpandFinish(t, ExpandPasses(t, Cursors(t)))

(***************************************************************************)
(* get_key.                                                                *)
(***************************************************************************)
\* bytes allocated for a slot holding one record of a key of length len
FirstSlotSize(len) == 1 + (IF len >= 128 THEN 1 ELSE 0) + len + SizeofValue + 1

\* bytes one more record of a key of length len adds to a slot
AppendSize(len) == 1 + (IF len >= 128 THEN 1 ELSE 0) + len + SizeofValue

RECURSIVE ScanSlot(_, _, _)
\* the search loop of lines 212-238 from offset p: the offset of the value of
\* the record found, or the offset of the terminator the loop stopped at
ScanSlot(buf, p, key) ==
    IF buf[p + 1] = 0 THEN [found |-> FALSE, pos |-> p]
    ELSE LET k == KeyLenAt(buf, p)
             q == p + PrefixStep(buf, p)
         IN  IF k # Len(key) THEN ScanSlot(buf, q + k + SizeofValue, key)
             ELSE IF SubSeq(buf, q + 1, q + k) = key
                  THEN [found |-> TRUE, pos |-> q + Len(key)]
                  ELSE ScanSlot(buf, q + k + SizeofValue, key)

\* a faulty capacity test that leaves out insert_missing
AtCapacityAlways(t, insert_missing) == t.m >= t.max_m

\* whether get_key starts with an expansion
AtCapacity(t, insert_missing) == insert_missing /\ t.m >= t.max_m

\* the result of get_key: the table afterwards, the value_t* returned, whether
\* the process was aborted, whether a bucket buffer was allocated or reallocated
Result(t, v, moved) == [T |-> t, val |-> v, aborted |-> FALSE, moved |-> moved]

\* lines 199-205 on slot i: r is what ins_key returned for the fresh buffer
FirstRecord(t, i, r) ==
    Result([t EXCEPT !.slots[i + 1] = WriteAt(r.buf, r.next, <<0>>), !.m = @ + 1],
           [slot |-> i, off |-> r.val], TRUE)

\* lines 249-255 on slot i: r is what ins_key returned for the grown buffer
Appended(t, i, r) ==
    Result([t EXCEPT !.slots[i + 1] = r.buf, !.m = @ + 1],
           [slot |-> i, off |-> r.val], TRUE)

\* a faulty append that puts the new record in front of the old ones
GrownAtFront(buf, old_size, key) ==
    ins_key(Malloc(AppendSize(Len(key))) \o SubSeq(buf, 1, old_size), 0, key)

\* lines 243-253: the buffer of old_size bytes in use, grown and terminated,
\* with the record of key written over the old terminator
Grown(buf, old_size, key) ==
    ins_key(WriteAt(Realloc(buf, old_size + AppendSize(Len(key))),
                    old_size + AppendSize(Len(key)) - 1, <<0>>),
            old_size - 1, key)

\* lines 210-257: slot i is not NULL and f is where the search loop ended
AfterScan(t, i, key, insert_missing, grew, f) ==
    IF f.found THEN Result(t, [slot |-> i, off |-> f.pos], grew)
    ELSE IF insert_missing
         THEN Appended(t, i, Grown(t.slots[i + 1], f.pos + 1, key))
         ELSE Result(t, NullVal, grew)

\* lines 185-257 on slot i = hash(key, len) % T->n
InSlot(t, i, key, insert_missing, grew) ==
    IF t.slots[i + 1] = NullSlot
    THEN IF insert_missing
         THEN FirstRecord(t, i, ins_key(Malloc(FirstSlotSize(Len(key))), 0, key))
         ELSE Result(t, NullVal, grew)
    ELSE AfterScan(t, i, key, insert_missing, grew,
                   ScanSlot(t.slots[i + 1], 0, key))

\* a faulty get_key that computes the slot index before it expands
AfterExpandStaleIndex(t, e, key, insert_missing, grew) ==
    IF e.aborted
    THEN [T |-> t, val |-> NullVal, aborted |-> TRUE, moved |-> FALSE]
    ELSE InSlot(e.T, hash(key) % t.n, key, insert_missing, grew)

\* lines 185-257: e is the table get_key works on after its first three lines
AfterExpand(t, e, key, insert_missing, grew) ==
    IF e.aborted
    THEN [T |-> t, val |-> NullVal, aborted |-> TRUE, moved |-> FALSE]
    ELSE InSlot(e.T, hash(key) % e.T.n, key, insert_missing, grew)

get_key(t, key, insert_missing) ==
    AfterExpand(t,
        IF AtCapacity(t, insert_missing) THEN ahtable_expand(t)
        ELSE [T |-> t, aborted |-> FALSE],
        key, insert_missing, AtCapacity(t, insert_missing))

ahtable_get(t, key) == get_key(t, key, TRUE)

ahtable_tryget(t, key) == get_key(t, key, FALSE)

(***************************************************************************)
(* A full traversal: begin, then next until finished.                      *)
(***************************************************************************)
\* what key and val give at cursor it: [slot, off, key, val]
RecordAt(t, it) ==
    [slot |-> it.i, off |-> it.s,
     key |-> ahtable_iter_key(t, it),
     val |-> Deref(t, ahtable_iter_val(t, it))]

\* the records a full traversal yields, in order
IterateOver(t, cs) == [j \in 1..Len(cs) |-> RecordAt(t, cs[j])]

Iterate(t) == IterateOver(t, Cursors(t))

(***************************************************************************)
(* The caller.  It owns a list of distinct keys and uses them in that      *)
(* order: at any time it may look up any key, and call get on a key it has *)
(* used since the last clear or on the next unused one.                    *)
(***************************************************************************)
K128 == Rep(7, 128)

K256 == Rep(7, 256)

\* five keys every build stores readably (lengths 1, 2, 128, 1, 1; one with an
\* embedded zero byte) and one of length 256, in two orders
Orders ==
    { <<<<1>>, <<1, 0>>, K128, <<2>>, <<3>>, K256>>,
      <<K256, <<3>>, K128, <<1, 0>>, <<1>>, <<2>>>> }

\* the value the caller stores through a handle: 0x0102, two non-zero bytes
WriteVals == {258}

\* no table has been cloned and no addresses are kept
NoTable == [n |-> 0]

NoClone ==
    /\ S = NoTable
    /\ heap = [ofT |-> << >>, ofS |-> << >>, freed |-> {}]
    /\ snap = << >>

\* how many keys the caller has used since create/clear
Used == Cardinality({j \in DOMAIN shadow : shadow[j] # Absent})

EmptyShadow == [j \in 1..Len(keys) |-> Absent]

\* the keys get may be called with
GetRange == 1..(IF Used < Len(keys) THEN Used + 1 ELSE Used)

Init ==
    /\ T \in {ahtable_create} \cup {ahtable_create_n(n) : n \in 1..MaxCreateN}
    /\ keys \in Orders
    /\ shadow = [j \in 1..Len(keys) |-> Absent]
    /\ aborted = FALSE
    /\ le \in BOOLEAN
    /\ ndebug \in BOOLEAN
    /\ hsel = "mix"
    /\ NoClone

\* the caller's state after a call of get that returned r
Returned(j, r) ==
    /\ T' = r.T
    /\ aborted' = r.aborted
    /\ shadow' = IF ~r.aborted /\ shadow[j] = Absent
                 THEN [shadow EXCEPT ![j] = 0] ELSE shadow

\* the caller's state after a call of get that returned r and a store of x
\* through the pointer
Stored(j, r, x) ==
    /\ T' = IF r.aborted THEN r.T ELSE Store(r.T, r.val, x)
    /\ aborted' = r.aborted
    /\ shadow' = IF r.aborted THEN shadow ELSE [shadow EXCEPT ![j] = x]

\* ahtable_get(T, keys[j], len), the returned pointer not written through
Get(j) ==
    /\ ~aborted
    /\ Returned(j, ahtable_get(T, keys[j]))
    /\ UNCHANGED <<keys, le, ndebug, hsel, S, heap, snap>>

\* *ahtable_get(T, keys[j], len) = x
Put(j, x) ==
    /\ ~aborted
    /\ Stored(j, ahtable_get(T, keys[j]), x)
    /\ UNCHANGED <<keys, le, ndebug, hsel, S, heap, snap>>

\* ahtable_tryget(T, keys[j], len)
TryGet(j) ==
    /\ ~aborted
    /\ T' = ahtable_tryget(T, keys[j]).T
    /\ UNCHANGED <<keys, shadow, aborted, le, ndebug, hsel, S, heap, snap>>

\* ahtable_clear(T)
Clear ==
    /\ ~aborted
    /\ T' = ahtable_clear(T)
    /\ shadow' = EmptyShadow
    /\ UNCHANGED <<keys, aborted, le, ndebug, hsel, S, heap, snap>>

Next ==
    \/ \E j \in GetRange : T.m < MaxM /\ Get(j)
    \/ \E j \in GetRange, x \in WriteVals : T.m < MaxM /\ Put(j, x)
    \/ \E j \in 1..Len(keys) : TryGet(j)
    \/ Clear

Spec == Init /\ [][Next]_vars

(***************************************************************************)
(* A long workload: many distinct short keys inserted one after the other  *)
(* into a table made by create() or by create_n(16), in the build that     *)
(* keeps assert().                                                         *)
(***************************************************************************)
SeqWorkload ==
    [j \in 1..MaxSeqM |-> IF j % 2 = 0 THEN <<j>> ELSE <<j, j>>]

InitSeq ==
    /\ T \in {ahtable_create, ahtable_create_n(2 * ahtable_initial_size)}
    /\ keys = SeqWorkload
    /\ shadow = [j \in 1..MaxSeqM |-> Absent]
    /\ aborted = FALSE
    /\ le = TRUE
    /\ ndebug = FALSE
    /\ hsel = "mix"
    /\ NoClone

NextSeq ==
    \/ \E j \in GetRange : T.m < MaxSeqM /\ Get(j)
    \/ \E j \in GetRange : TryGet(j)
    \/ Clear

SpecSeq == InitSeq /\ [][NextSeq]_vars

(***************************************************************************)
(* The same caller without clear, and a caller whose keys have the         *)
(* boundary lengths of the length prefix.                                  *)
(***************************************************************************)
NextNoClear ==
    \/ \E j \in GetRange : T.m < MaxM /\ Get(j)
    \/ \E j \in GetRange, x \in WriteVals : T.m < MaxM /\ Put(j, x)
    \/ \E j \in 1..Len(keys) : TryGet(j)

SpecNoClear == Init /\ [][NextNoClear]_vars

BoundaryLens == <<1, 127, 128, 129, 255, 256, 32767>>

BoundaryWorkload == [j \in 1..Len(BoundaryLens) |-> Rep(j, BoundaryLens[j])]

InitEnc ==
    /\ T = ahtable_create
    /\ keys = BoundaryWorkload
    /\ shadow = [j \in 1..Len(BoundaryLens) |-> Absent]
    /\ aborted = FALSE
    /\ le \in BOOLEAN
    /\ ndebug = FALSE
    /\ hsel = "mix"
    /\ NoClone

NextEnc ==
    \/ \E j \in GetRange : T.m < MaxEncM /\ Get(j)
    \/ \E j \in GetRange, x \in WriteVals : T.m < MaxEncM /\ Put(j, x)
    \/ \E j \in 1..Len(keys) : TryGet(j)

SpecEnc == InitEnc /\ [][NextEnc]_vars

(***************************************************************************)
(* Vocabulary of the properties.                                           *)
(***************************************************************************)
\* what the caller reads through the pointer a lookup returned
ValOrAbsent(r) == IF r.val = NullVal THEN Absent ELSE Deref(r.T, r.val)

\* the value tryget finds for key in t, or Absent
TryVal(t, key) == ValOrAbsent(ahtable_tryget(t, key))

\* the position of key in the caller's list
KeyIndex(key) == CHOOSE j \in 1..Len(keys) : keys[j] = key

\* how many of the records recs have the key
Yielded(recs, key) == Cardinality({a \in 1..Len(recs) : recs[a].key = key})

\* every other key of the caller is looked up in t2 as in t1
OthersKept(t1, t2, j) ==
    \A i \in 1..Len(keys) : i # j => TryVal(t2, keys[i]) = TryVal(t1, keys[i])

(***************************************************************************)
(* C1  Round trip.                                                         *)
(***************************************************************************)
\* C1: whatever the caller stored last through the pointer get returned for a
\* key (0 if it stored nothing) is what tryget finds for that key, and a key
\* the caller has not inserted is not found; a later get and store replaces
\* the value.  Keys of every length from 1 to 32767 are meant.
C1_RoundTrip ==
    ~aborted =>
        \A j \in 1..Len(keys) : TryVal(T, keys[j]) = shadow[j]

\* the same for the keys whose length prefix the build reads back: all of
\* them when the high byte of the prefix is stored first
Readable(key) ==
    ~le \/ Len(key) < 128 \/ Or8000(U16(Len(key))) % 256 >= 128

RoundTripReadable ==
    ~aborted =>
        \A j \in 1..Len(keys) :
            Readable(keys[j]) => TryVal(T, keys[j]) = shadow[j]

(***************************************************************************)
(* C2  What one call of get changes.                                       *)
(***************************************************************************)
\* get on a key the caller has not inserted: one more record, with value 0
GetAbsentFrame(t, j, r) ==
    /\ r.T.m = t.m + 1
    /\ r.val # NullVal
    /\ Deref(r.T, r.val) = 0
    /\ Len(Iterate(r.T)) = Len(Iterate(t)) + 1
    /\ Yielded(Iterate(r.T), keys[j]) = 1
    /\ OthersKept(t, r.T, j)

\* get on a key the caller has inserted: its record, nothing added
GetPresentFrame(t, j, r) ==
    /\ r.T.m = t.m
    /\ r.val # NullVal
    /\ r.val = ahtable_tryget(r.T, keys[j]).val
    /\ Deref(r.T, r.val) = shadow[j]
    /\ Len(Iterate(r.T)) = Len(Iterate(t))
    /\ OthersKept(t, r.T, j)

GetFrame(t, j, r) ==
    r.aborted \/ (IF shadow[j] = Absent THEN GetAbsentFrame(t, j, r)
                                        ELSE GetPresentFrame(t, j, r))

\* C2: in every reachable state, get on an absent key inserts exactly one
\* record for it with value 0 and adds 1 to m, get on a present key returns
\* the existing record and leaves its value, m and the number of records as
\* they are, and either leaves what is stored for all other keys unchanged.
C2_GetFrame ==
    ~aborted =>
        \A j \in GetRange : GetFrame(T, j, ahtable_get(T, keys[j]))

(***************************************************************************)
(* C3  Expansion keeps the values.                                         *)
(***************************************************************************)
\* a completed expansion e of t keeps m, doubles n and finds for every key
\* the caller inserted the value the caller stored for it
ExpandKeepsValues(t, e) ==
    e.aborted \/ (/\ e.T.m = t.m
                  /\ e.T.n = 2 * t.n
                  /\ \A j \in 1..Len(keys) :
                        shadow[j] # Absent => TryVal(e.T, keys[j]) = shadow[j])

\* C3: in every reachable state in which the next get expands the table, the
\* expansion leaves m unchanged and every key/value pair inserted before it
\* is retrievable by tryget with its value after it.
C3_ExpandKeepsValues ==
    (~aborted /\ AtCapacity(T, TRUE)) =>
        ExpandKeepsValues(T, ahtable_expand(T))

\* what the expansion does keep: m, and what tryget found before it
ExpandKeepsFound(t, e) ==
    e.aborted \/ (/\ e.T.m = t.m
                  /\ e.T.n = 2 * t.n
                  /\ \A j \in 1..Len(keys) :
                        TryVal(e.T, keys[j]) = TryVal(t, keys[j]))

ExpandFrame ==
    (~aborted /\ AtCapacity(T, TRUE)) =>
        ExpandKeepsFound(T, ahtable_expand(T))

(***************************************************************************)
(* C4  The counter and the traversal.                                      *)
(***************************************************************************)
\* C4: in every state reached by calls of get on a created table, size is the
\* number of records a full traversal yields and the number of distinct keys
\* inserted, and the traversal yields every inserted key exactly once.
C4_CountConsistency ==
    ~aborted =>
        /\ ahtable_size(T) = Len(Iterate(T))
        /\ ahtable_size(T) = Used
        /\ \A j \in 1..Len(keys) :
              shadow[j] # Absent => Yielded(Iterate(T), keys[j]) = 1

(***************************************************************************)
(* C5  tryget.                                                             *)
(***************************************************************************)
\* r is what tryget returned for key j in t: t untouched, NULL exactly when
\* no record of the table has the key, else the value of that record
TryGetPure(t, j, r) ==
    /\ r.T = t
    /\ ~r.aborted
    /\ ~r.moved
    /\ (r.val = NullVal) <=> (Yielded(Iterate(t), keys[j]) = 0)
    /\ r.val # NullVal =>
          \E c \in 1..Len(Cursors(t)) :
              /\ ahtable_iter_key(t, Cursors(t)[c]) = keys[j]
              /\ ahtable_iter_val(t, Cursors(t)[c]) = r.val

GetAfterClear(r) == ~r.aborted /\ ahtable_size(r.T) = 1

\* c is the table clear leaves: empty, of the initial size, and usable
ClearResets(c) ==
    /\ ahtable_size(c) = 0
    /\ Len(Iterate(c)) = 0
    /\ c.n = ahtable_initial_size
    /\ c.slots = Rep(NullSlot, ahtable_initial_size)
    /\ \A j \in 1..Len(keys) : GetAfterClear(ahtable_get(c, keys[j]))

\* C6: in every reachable state, clear leaves a table whose size is 0, whose
\* traversal yields nothing and whose slot count is the initial 8, and a get
\* that follows gives size 1.
C6_ClearResets == ~aborted => ClearResets(ahtable_clear(T))

(***************************************************************************)
(* C7  The load bound.                                                     *)
(***************************************************************************)
\* C7: in every reachable state, after create, create_n, clear and any
\* insertion by get, m <= max_m.
C7_LoadBound == T.m <= T.max_m

(***************************************************************************)
(* C8  get twice.                                                          *)
(***************************************************************************)
\* r2 is what get returned for the key right after get returned r1 for it
SameHandle(r1, r2) ==
    r1.aborted \/ (/\ ~r2.aborted
                   /\ r2.val = r1.val
                   /\ ~r2.moved
                   /\ r2.T = r1.T)

GetTwice(r1, key) == SameHandle(r1, ahtable_get(r1.T, key))

\* C8: in every reachable state and for every key, a second get on the key,
\* with no call in between, returns the same pointer as the first, changes
\* nothing and reallocates or moves no bucket.
C8_IdempotentGet ==
    ~aborted =>
        \A j \in GetRange : GetTwice(ahtable_get(T, keys[j]), keys[j])

(***************************************************************************)
(* C9  The length prefix at its boundaries.                                *)
(***************************************************************************)
\* the length the readers decode from the prefix the writer stores for len
DecodedLen(len) == KeyLenAt(KeyLenPrefix(len) \o <<0>>, 0)

\* the prefix of len is one byte below 128 and two bytes from 128 on, its
\* first byte tells which, and it decodes to len
PrefixOK(len) ==
    /\ Len(KeyLenPrefix(len)) = (IF len < 128 THEN 1 ELSE 2)
    /\ LongPrefix(KeyLenPrefix(len) \o <<0>>, 0) <=> (len >= 128)
    /\ DecodedLen(len) = len

\* C9: keys of the lengths 1, 127, 128, 129, 255, 256 and 32767 are written
\* with a prefix that search and traversal decode to the same length: an
\* inserted key is found by tryget with its value and yielded once by the
\* traversal with its bytes.
C9_BoundaryLengths ==
    ~aborted =>
        \A j \in 1..Len(keys) :
            /\ PrefixOK(Len(keys[j]))
            /\ shadow[j] # Absent =>
                  /\ TryVal(T, keys[j]) = shadow[j]
                  /\ Yielded(Iterate(T), keys[j]) = 1

(***************************************************************************)
(* C10  The order of the traversal.                                        *)
(***************************************************************************)
\* records a before b: an earlier slot, or the same slot and a key the caller
\* inserted earlier (the caller inserts its keys in the order of its list)
Before(a, b) ==
    \/ a.slot < b.slot
    \/ a.slot = b.slot /\ a.off < b.off /\ KeyIndex(a.key) < KeyIndex(b.key)

InOrder(recs) ==
    \A a, b \in 1..Len(recs) : a < b => Before(recs[a], recs[b])

\* the same for the table a completed expansion e leaves
ExpandInOrder(e) == e.aborted \/ InOrder(Iterate(e.T))

\* C10: in every reachable state the traversal yields the records in
\* ascending slot order and, within a slot, in the order in which their keys
\* were first inserted; the table an expansion leaves is in that order too.
C10_IterationOrder ==
    ~aborted =>
        /\ InOrder(Iterate(T))
        /\ AtCapacity(T, TRUE) => ExpandInOrder(ahtable_expand(T))

\* an expanded table with a slot that holds three records
C10_Witness ==
    /\ ~aborted
    /\ T.n = 2
    /\ \E i \in 0..(T.n - 1) :
          Cardinality({a \in 1..Len(Iterate(T)) : Iterate(T)[a].slot = i}) >= 3

(***************************************************************************)
(* C11  Keys of length 0.                                                  *)
(***************************************************************************)
\* the key of length 0
EmptyKey == << >>

\* r is what get or tryget returned for the key of length 0 in t: refused
Refused(t, r) == r.T = t /\ r.val = NullVal /\ ~r.aborted

\* C11: in every reachable state, get and tryget with a key of length 0 are
\* refused and leave the table (m, n and every bucket) unchanged, so that no
\* get with length 0 adds a record or raises m.
C11_ZeroLengthRejected ==
    ~aborted =>
        /\ Refused(T, ahtable_tryget(T, EmptyKey))
        /\ Refused(T, ahtable_get(T, EmptyKey))

(***************************************************************************)
(* C12  Keys longer than 32767 bytes.                                      *)
(***************************************************************************)
\* a key one byte longer than the prefix can tell
OversizeKey == Rep(7, LONG_KEYLEN_MASK + 1)

\* r is what get or tryget returned for key in t: nothing was written, or the
\* prefix the record got decodes to the length of the key
RefusedOrExact(t, r, key) ==
    /\ Refused(t, r)
    /\ r.T # t => DecodedLen(Len(key)) = Len(key)

\* C12: in every reachable state, get and tryget with a key longer than 32767
\* bytes are refused and leave the table unchanged; no record is written
\* whose length prefix differs from the length the caller passed.
C12_OversizeRejected ==
    ~aborted =>
        /\ RefusedOrExact(T, ahtable_tryget(T, OversizeKey), OversizeKey)
        /\ RefusedOrExact(T, ahtable_get(T, OversizeKey), OversizeKey)

(***************************************************************************)
(* Cloning.  A slot of a table is a pointer; the callers that clone keep   *)
(* the address of every bucket buffer: heap.ofT[i + 1] is T->slots[i] and  *)
(* heap.ofS[i + 1] is S->slots[i], 0 for NULL, and heap.freed holds the    *)
(* addresses S still has although their buffers were freed.  T and S hold  *)
(* the bytes their pointers show; bytes behind a freed address are what    *)
(* was last seen there, and reading them is undefined.                     *)
(***************************************************************************)
Range(f) == {f[x] : x \in DOMAIN f}

\* the address malloc returns: the lowest one that no table holds
FreshAddr(used) == Min({a \in 1..(Cardinality(used) + 1) : a \notin used})

\* ahtable_dup(T): a table of T->n slots, then the slot pointers, flag, c0,
\* c1 and m of T copied into it
ahtable_dup(t) ==
    [ahtable_create_n(t.n) EXCEPT !.slots = t.slots, !.flag = t.flag,
                                   !.c0 = t.c0, !.c1 = t.c1, !.m = t.m]

\* the addresses of the buffers ahtable_free, ahtable_clear and the end of
\* ahtable_expand free
BucketsOf(h) == Range(h.ofT) \ {0}

\* the heap after the buffers of T were freed and T got the pointers ofT
Released(h, ofT) ==
    [ofT |-> ofT, ofS |-> h.ofS,
     freed |-> (h.freed \cup BucketsOf(h)) \cap (Range(h.ofS) \ {0})]

RECURSIVE AllocSlots(_, _, _)
\* the loop of lines 132-138: an address for each slot of t that is not NULL
AllocSlots(t, h, ofT) ==
    IF Len(ofT) = t.n THEN ofT
    ELSE AllocSlots(t, h,
             Append(ofT, IF t.slots[Len(ofT) + 1] = NullSlot THEN 0
                         ELSE FreshAddr(Range(ofT) \cup Range(h.ofS)
                                        \cup BucketsOf(h))))

\* the heap after get_key's first three lines: e is the table they left
HeapAfterExpand(h, t, e) ==
    IF e = t THEN h ELSE Released(h, AllocSlots(e, h, << >>))

\* the heap after lines 185-257 worked on slot i of table e: found tells
\* whether the key was there, moved whether realloc returned another address
HeapAfterInsert(h, e, i, found, moved) ==
    IF ~found /\ (e.slots[i + 1] = NullSlot \/ moved)
    THEN [ofT |-> [h.ofT EXCEPT ![i + 1] =
                       FreshAddr(Range(h.ofT) \cup Range(h.ofS))],
          ofS |-> h.ofS,
          freed |-> (h.freed \cup {h.ofT[i + 1]}) \cap (Range(h.ofS) \ {0})]
    ELSE h

HeapInserted(h, e, key, moved) ==
    HeapAfterInsert(h, e, hash(key) % e.n,
                    ahtable_tryget(e, key).val # NullVal, moved)

\* the table get_key works on after its first three lines
ExpandedFirst(t) ==
    IF AtCapacity(t, TRUE) THEN ahtable_expand(t).T ELSE t

\* the heap after ahtable_get(t, key)
HeapAfterGet(h, t, key, moved) ==
    IF ahtable_get(t, key).aborted THEN h
    ELSE HeapInserted(HeapAfterExpand(h, t, ExpandedFirst(t)),
                      ExpandedFirst(t), key, moved)

\* slot k of S after T became t under heap h: the same bytes as the slot of
\* t at the same address, if there is one
SeenByClone(h, t, k) ==
    IF h.ofS[k] # 0 /\ h.ofS[k] \in Range(h.ofT)
    THEN t.slots[CHOOSE i \in 1..Len(h.ofT) : h.ofT[i] = h.ofS[k]]
    ELSE S.slots[k]

CloneAfter(h, t) ==
    IF S = NoTable THEN S
    ELSE [S EXCEPT !.slots = [k \in 1..S.n |-> SeenByClone(h, t, k)]]

\* *ahtable_get(T, keys[j], len) = x by a caller that may hold a clone
DPut(j, x, moved) ==
    /\ ~aborted /\ T # NoTable
    /\ Stored(j, ahtable_get(T, keys[j]), x)
    /\ heap' = HeapAfterGet(heap, T, keys[j], moved)
    /\ S' = CloneAfter(heap', T')
    /\ UNCHANGED <<keys, le, ndebug, hsel, snap>>

\* ahtable_clear(T)
DClear ==
    /\ ~aborted /\ T # NoTable
    /\ T' = ahtable_clear(T)
    /\ shadow' = EmptyShadow
    /\ heap' = Released(heap, Rep(0, ahtable_initial_size))
    /\ UNCHANGED <<keys, aborted, le, ndebug, hsel, S, snap>>

\* ahtable_free(T): the buckets, the slot array and the table are freed
DFree ==
    /\ ~aborted /\ T # NoTable
    /\ T' = NoTable
    /\ heap' = Released(heap, << >>)
    /\ UNCHANGED <<keys, shadow, aborted, le, ndebug, hsel, S, snap>>

\* S = ahtable_dup(T)
Dup ==
    /\ ~aborted /\ T # NoTable /\ S = NoTable
    /\ S' = ahtable_dup(T)
    /\ heap' = [heap EXCEPT !.ofS = heap.ofT]
    /\ snap' = shadow
    /\ UNCHANGED <<T, keys, shadow, aborted, le, ndebug, hsel>>

\* six short keys, one of them with an embedded zero byte
DupWorkload == << <<1>>, <<1, 0>>, <<2>>, <<3>>, <<4>>, <<5>> >>

InitDup ==
    /\ T \in {ahtable_create_n(n) : n \in 1..MaxCreateN}
    /\ keys = DupWorkload
    /\ shadow = [j \in 1..Len(keys) |-> Absent]
    /\ aborted = FALSE
    /\ le = TRUE
    /\ ndebug = FALSE
    /\ hsel = "mix"
    /\ S = NoTable
    /\ heap = [ofT |-> Rep(0, T.n), ofS |-> << >>, freed |-> {}]
    /\ snap = << >>

NextDup ==
    \/ \E j \in GetRange, x \in WriteVals, moved \in BOOLEAN :
          T # NoTable /\ T.m < MaxDupM /\ DPut(j, x, moved)
    \/ DClear
    \/ DFree
    \/ Dup

SpecDup == InitDup /\ [][NextDup]_vars

(***************************************************************************)
(* C13  Who owns a bucket buffer.                                          *)
(***************************************************************************)
\* no buffer of the clone is a buffer of T, and none has been freed
ExclusiveBuckets ==
    \A k \in 1..Len(heap.ofS) :
        heap.ofS[k] # 0 =>
            heap.ofS[k] \notin Range(heap.ofT) /\ heap.ofS[k] \notin heap.freed

\* the clone finds for every key what T held for it at the time of the clone
CloneAnswers ==
    \A j \in 1..Len(keys) : TryVal(S, keys[j]) = snap[j]

\* C13: in every reachable state each bucket buffer is referenced by one
\* table only; a clone references no buffer that T's free, clear or inserting
\* get has freed or reallocated, and answers every lookup with the value T
\* had at the time of the clone.
C13_ExclusiveOwnership ==
    S # NoTable => (ExclusiveBuckets /\ CloneAnswers)

(***************************************************************************)
(* C14  What the clone equals.                                             *)
(***************************************************************************)
\* values the embedder may have stored in flag, c0 and c1
MetaBytes == {<<0, 0, 0>>, <<1, 65, 255>>}

\* t with the metadata bytes f
Tagged(t, f) == [t EXCEPT !.flag = f[1], !.c0 = f[2], !.c1 = f[3]]

\* s has the sizes, the counter, the threshold and the metadata of t, and
\* tryget finds in s what it finds in t
CloneEquals(t, s) ==
    /\ s.n = t.n
    /\ s.m = t.m
    /\ s.max_m = t.max_m
    /\ s.flag = t.flag /\ s.c0 = t.c0 /\ s.c1 = t.c1
    /\ \A j \in 1..Len(keys) : TryVal(s, keys[j]) = TryVal(t, keys[j])

\* C14: for every reachable table T, whatever its metadata bytes, the table
\* ahtable_dup returns has T's n, m, max_m, flag, c0 and c1, and tryget gives
\* for every key the same presence and value in it as in T.
C14_CloneEquivalence ==
    (~aborted /\ T # NoTable) =>
        \A f \in MetaBytes : CloneEquals(Tagged(T, f), ahtable_dup(Tagged(T, f)))

\* the same for the tables whose threshold is the one of their slot count
CloneEqualsFresh ==
    (~aborted /\ T # NoTable /\ T.max_m = MaxLoad(T.n)) =>
        \A f \in MetaBytes : CloneEquals(Tagged(T, f), ahtable_dup(Tagged(T, f)))

(***************************************************************************)
(* C15  When the table expands, and by how much.                           *)
(***************************************************************************)
\* the get of key j that returned r expanded table t
Expanded(t, r) == r.T.n # t.n

\* r is what get returned for key j in t: the table grew exactly when the key
\* was new and m had reached max_m, then to twice the slots and the threshold
\* of twice the slots, before the record was placed; a hit leaves n alone
ExpansionStep(t, j, r) ==
    /\ Expanded(t, r) <=> (shadow[j] = Absent /\ t.m >= t.max_m)
    /\ Expanded(t, r) =>
          /\ r.T.n = 2 * t.n
          /\ r.T.max_m = MaxLoad(2 * t.n)
          /\ r.T.m = t.m + 1
          /\ r.val.slot = hash(keys[j]) % (2 * t.n)
    /\ shadow[j] # Absent => r.T.n = t.n

\* a table from create() that has taken 40 distinct keys takes the 41st into
\* 16 slots with threshold 80, and was at 8 slots until then
FortyFirst(t, j, r) ==
    (t.max_m = MaxLoad(ahtable_initial_size) /\ Used = t.m /\ shadow[j] = Absent) =>
        /\ t.n = ahtable_initial_size
        /\ IF t.m < MaxLoad(ahtable_initial_size)
           THEN r.T.n = ahtable_initial_size
           ELSE r.T.n = 2 * ahtable_initial_size
                /\ r.T.max_m = MaxLoad(2 * ahtable_initial_size)

GetStep(t, j, r) == r.aborted \/ (ExpansionStep(t, j, r) /\ FortyFirst(t, j, r))

\* C15: in every reachable state, a get expands the table only when its key
\* is new and m has reached max_m; the expansion runs before the insert and
\* turns n into 2n and max_m into 5 * 2n; a get that hits a stored key leaves
\* n unchanged; from create(), n is 8 through 40 distinct insertions and the
\* 41st gives n = 16, max_m = 80.
C15_ExpansionTrigger ==
    ~aborted =>
        \A j \in GetRange : GetStep(T, j, ahtable_get(T, keys[j]))

\* what the code does: any get at m >= max_m expands, hit or miss
ExpandsAtCapacity(t, j, r) ==
    r.aborted \/ (/\ Expanded(t, r) <=> t.m >= t.max_m
                  /\ Expanded(t, r) =>
                        r.T.n = 2 * t.n /\ r.T.max_m = MaxLoad(2 * t.n)
                  /\ FortyFirst(t, j, r))

GetExpandsAtCapacity ==
    ~aborted =>
        \A j \in GetRange : ExpandsAtCapacity(T, j, ahtable_get(T, keys[j]))

(***************************************************************************)
(* C16  assert(m == T->m).                                                 *)
(***************************************************************************)
\* the number of records pass 2 of an expansion of t replays
Replayed(t) == ExpandPasses(t, Cursors(t)).m

\* C16: no assert has ended the process, and in every reachable state in
\* which the next get expands the table, the number of records the expansion
\* replays equals m.
C16_AssertHolds ==
    /\ ~aborted
    /\ AtCapacity(T, TRUE) => Replayed(T) = T.m

(***************************************************************************)
(* C17  The threshold follows the slot count.                              *)
(***************************************************************************)
\* C17: in every reachable state max_m = floor(5.0 * n).
C17_ThresholdInvariant == T.max_m = MaxLoad(T.n)

(***************************************************************************)
(* C18  Records are in the bucket of their hash, under any hash function.  *)
(***************************************************************************)
\* the caller of Spec linked with either hash function
InitHash ==
    /\ T \in {ahtable_create} \cup {ahtable_create_n(n) : n \in 1..MaxCreateN}
    /\ keys \in Orders
    /\ shadow = [j \in 1..Len(keys) |-> Absent]
    /\ aborted = FALSE
    /\ le \in BOOLEAN
    /\ ndebug \in BOOLEAN
    /\ hsel \in HashKinds
    /\ NoClone

SpecHash == InitHash /\ [][Next]_vars

\* the records recs of a table of n slots are each in slot hash(key) mod n,
\* and no two of them have the same key
PlacedByHash(n, recs) ==
    /\ \A a \in 1..Len(recs) : recs[a].slot = hash(recs[a].key) % n
    /\ \A a, b \in 1..Len(recs) : a # b => recs[a].key # recs[b].key

\* the same for the table a completed expansion e leaves
ExpandPlacedByHash(e) == e.aborted \/ PlacedByHash(e.T.n, Iterate(e.T))

\* C18: in every reachable state, with the spreading hash and with the
\* constant hash, every record of bucket b has hash(key) mod n = b for the
\* current n and no two records of the table have the same key; the table a
\* due expansion leaves has both properties too.
C18_BucketPlacement ==
    ~aborted =>
        /\ PlacedByHash(T.n, Iterate(T))
        /\ AtCapacity(T, TRUE) => ExpandPlacedByHash(ahtable_expand(T))

\* under the constant hash, an expanded table with five records, all of them
\* in slot 0
C18_Witness ==
    /\ ~aborted
    /\ hsel = "const"
    /\ T.n = 2
    /\ Len(Iterate(T)) >= 5
    /\ T.slots[2] = NullSlot

(***************************************************************************)
(* C19  The iterator.                                                      *)
(***************************************************************************)
\* the cursor is at a record: not finished, inside a buffer, at a byte that
\* is not the terminator
AtRecord(t, it) ==
    /\ ~ahtable_iter_finished(t, it)
    /\ t.slots[it.i + 1] # NullSlot
    /\ it.s < Len(t.slots[it.i + 1])
    /\ t.slots[it.i + 1][it.s + 1] # 0

\* the exhausted cursor stays where it is and has no key and no value
Terminal(t, it) ==
    /\ ahtable_iter_finished(t, it)
    /\ ahtable_iter_next(t, it) = it
    /\ ahtable_iter_key(t, it) = NullSlot
    /\ ahtable_iter_val(t, it) = NullVal

\* begin is exhausted on the empty table and else at the start of the
\* lowest slot that has a record
BeginsAtFirst(t, it, m) ==
    IF m = 0 THEN ahtable_iter_finished(t, it)
    ELSE /\ AtRecord(t, it)
         /\ it.s = 0
         /\ \A j \in 0..(it.i - 1) : ~NonEmptySlot(t, j)

\* cs are the cursors begin, next, next, ... of a table of m records:
\* m cursors at a record, then the exhausted one
IterMachine(t, cs, m) ==
    /\ BeginsAtFirst(t, cs[1], m)
    /\ \A k \in 1..m : AtRecord(t, cs[k])
    /\ Terminal(t, cs[m + 1])

RECURSIVE ScanCount(_, _)
\* the number of records the search loop of get_key steps over from offset p
ScanCount(buf, p) ==
    IF buf[p + 1] = 0 THEN 0
    ELSE 1 + ScanCount(buf, p + PrefixStep(buf, p) + KeyLenAt(buf, p)
                                + SizeofValue)

RECURSIVE SearchableRecords(_, _)
\* the same over slots 0..j-1
SearchableRecords(t, j) ==
    IF j = 0 THEN 0
    ELSE SearchableRecords(t, j - 1)
         + (IF t.slots[j] = NullSlot THEN 0 ELSE ScanCount(t.slots[j], 0))

\* what does hold: the iterator visits as many records as the search loop
\* of get_key finds in the buckets
IteratorVisitsSearchable ==
    ~aborted =>
        IterMachine(T, CursorRun(T, ahtable_iter_begin(T),
                                 SearchableRecords(T, T.n) + 1),
                    SearchableRecords(T, T.n))

(***************************************************************************)
(* C20  Exact bucket sizing.                                               *)
(***************************************************************************)
RECURSIVE EndOfRecords(_, _)
\* the offset of the first byte 0x00 in the place of a length prefix, reading
\* the records of buf from offset p
EndOfRecords(buf, p) ==
    IF buf[p + 1] = 0 THEN p
    ELSE EndOfRecords(buf, p + PrefixStep(buf, p) + KeyLenAt(buf, p)
                                + SizeofValue)

\* every byte written, the last one the terminator, and no 0x00 in the place
\* of a length prefix before it
ExactBucket(buf) ==
    /\ Len(buf) > 1
    /\ \A p \in 1..Len(buf) : buf[p] # Uninit
    /\ buf[Len(buf)] = 0
    /\ EndOfRecords(buf, 0) = Len(buf) - 1

ExactBuckets(t) ==
    \A j \in 1..t.n : t.slots[j] # NullSlot => ExactBucket(t.slots[j])

\* after pass 2 the write cursor of every new bucket is at sizes[b'], the
\* offset of the terminator of its sizes[b'] + 1 bytes
ExpandExactAt(slot_sizes, st) ==
    \A j \in 1..Len(slot_sizes) :
        IF slot_sizes[j] > 0
        THEN /\ st.slots_next[j] = slot_sizes[j]
             /\ Len(st.slots[j]) = slot_sizes[j] + 1
             /\ st.slots[j][slot_sizes[j] + 1] = 0
             /\ \A p \in 1..slot_sizes[j] : st.slots[j][p] # Uninit
        ELSE st.slots[j] = NullSlot /\ st.slots_next[j] = 0

ExpandExact(t, cs) ==
    ExpandExactAt(ExpandSizes(t, cs, 1, Len(cs), Rep(0, 2 * t.n)),
                  ExpandPasses(t, cs))

\* the record get wrote ends one byte before the end of its buffer, and that
\* last byte is the terminator
WroteExactly(buf, off) ==
    /\ off + SizeofValue = Len(buf) - 1
    /\ buf[Len(buf)] = 0
    /\ \A p \in 1..Len(buf) : buf[p] # Uninit

GetExactAt(r) ==
    r.aborted \/ (/\ r.val # NullVal
                  /\ WroteExactly(r.T.slots[r.val.slot + 1], r.val.off))

\* a get of a key the table does not find creates or extends a bucket
GetExact(t, key) ==
    ahtable_tryget(t, key).val = NullVal => GetExactAt(ahtable_get(t, key))

\* the sizing alone: the expander and get write exactly the bytes allocated
SizingExact ==
    ~aborted =>
        /\ ExpandExact(T, Cursors(T))
        /\ \A j \in 1..Len(keys) : GetExact(T, keys[j])

\* C20: in every reachable state every non-empty bucket ends with exactly one
\* 0x00 terminator and none of its records starts with 0x00; an expansion
\* writes into each new bucket exactly the sizes[b'] bytes of pass 1, so each
\* write cursor ends on the terminator; and a get that creates or extends a
\* bucket writes exactly the bytes it allocated.
C20_ExactSizing ==
    ~aborted =>
        /\ ExactBuckets(T)
        /\ ExpandExact(T, Cursors(T))
        /\ \A j \in 1..Len(keys) : GetExact(T, keys[j])

====
